---- MODULE Spec2Model ----
(***************************************************************************)
(* A model of handy-scripts: the RedNotebook-to-Markdown line rewriter     *)
(* (rn2md.py) and the prompt shortener (smartpwd.py).                      *)
(*                                                                         *)
(* A Python string is a sequence of one-character strings.  Offsets and    *)
(* spans keep Python's convention: 0-based, half-open <<lo, hi>>.          *)
(***************************************************************************)
EXTENDS Integers, Sequences, FiniteSets, TLC

VARIABLES
  pc,               \* "ready": an input is waiting; "done": the call returned
  rule,             \* the rule (or function) under call
  string,           \* the line (for smartpwd: the pwd) handed to the call
  output,           \* what the call returned (unchanged when it raised)
  raised,           \* TRUE when the call ended in an exception
  ranges,           \* what self.FindRanges(string) returned in the call
  history,          \* TranslateLists.history
  missed_one,       \* TranslateLists.missed_one
  past_first_line,  \* FirstLineToHeader.past_first_line
  padding,          \* TranslateHeaders.padding
  transform,        \* the Transform a Morpher subclass overrides the default with
  home,             \* smartpwd's home argument
  maxlen,           \* smartpwd's maxlen argument
  fed,              \* history variable: number of calls made on the instance
  nPlus,            \* history variable: number of + list lines fed so far
  indents,          \* history variable: marker offsets of the list lines fed
  hadGap,           \* history variable: two non-list lines were fed in a row
  missRun,          \* history variable: non-list lines fed since the last list line
  lastDepth,        \* history variable: marker offset of the last list line, or -1
  lastCounter,      \* history variable: history[-1] right after the last list line
  before,           \* history variable: <<missRun, lastDepth, lastCounter>> as they
                    \* were when the current call began
  program,          \* the program whose FormatDay main calls: rn2md or rn2md_range
  day,              \* FormatDay's day argument
  text,             \* database[day]
  body,             \* the lines of the day that map(rn2md, body) has not reached yet
  formatted,        \* the lines map(rn2md, body) has produced
  nDays,            \* number of FormatDay calls main has made
  stale             \* history variable: <<history, missed_one>> of the pipeline of
                    \* the day before, as they were when FormatDay was called

instance == <<history, missed_one, past_first_line, padding, transform>>
args     == <<home, maxlen>>
observed == <<nPlus, indents, hadGap, missRun, lastDepth, lastCounter, before>>
daily    == <<program, day, text, body, formatted, nDays, stale>>
vars == <<pc, rule, string, output, raised, ranges, instance, args, fed, observed, daily>>

----------------------------------------------------------------------------
(* Python strings, slices and str()                                        *)

Min(a, b) == IF a < b THEN a ELSE b
Max(a, b) == IF a > b THEN a ELSE b

\* One index of a Python slice: negative counts from the end, then clamped.
PyIndex(i, n) == IF i < 0 THEN Max(i + n, 0) ELSE Min(i, n)

\* s[lo:hi]
PySlice(s, lo, hi) ==
  LET l == PyIndex(lo, Len(s))
      h == PyIndex(hi, Len(s))
  IN  IF l >= h THEN <<>> ELSE SubSeq(s, l + 1, h)

\* s[lo:]
PySliceFrom(s, lo) == PySlice(s, lo, Len(s))

\* s[::-1]
Reversed(s) == [i \in 1..Len(s) |-> s[Len(s) + 1 - i]]

RECURSIVE Concat(_)
Concat(ss) == IF ss = <<>> THEN <<>> ELSE Head(ss) \o Concat(Tail(ss))

\* c * n for a one-character string c
Repeat(c, n) == [i \in 1..n |-> c]

DigitChars == <<"0", "1", "2", "3", "4", "5", "6", "7", "8", "9">>

\* str(n) for n >= 0
RECURSIVE Str(_)
Str(n) == IF n < 10 THEN <<DigitChars[n + 1]>>
          ELSE Str(n \div 10) \o <<DigitChars[(n % 10) + 1]>>

\* s.startswith(p)
StartsWith(s, p) == Len(p) <= Len(s) /\ SubSeq(s, 1, Len(p)) = p

----------------------------------------------------------------------------
(* Character classes of Python's re                                        *)

Lower == {"a", "b", "c", "d", "e", "f", "g", "h", "i", "j", "k", "l", "m",
          "n", "o", "p", "q", "r", "s", "t", "u", "v", "w", "x", "y", "z"}
Upper == {"A", "B", "C", "D", "E", "F", "G", "H", "I", "J", "K", "L", "M",
          "N", "O", "P", "Q", "R", "S", "T", "U", "V", "W", "X", "Y", "Z"}
Digit == {"0", "1", "2", "3", "4", "5", "6", "7", "8", "9"}
\* The characters of the model are the code points of Unicode.  A character
\* a string literal cannot hold is written <xNN> when it belongs to Latin-1
\* and <uNNNN> beyond it, NN and NNNN its code point in hexadecimal (lower
\* case, four digits or more).
VT   == "<x0b>"    \* vertical tab
NBSP == "<xa0>"    \* no-break space
EACUTE == "<xe9>"  \* e with acute accent

\* the white space of Latin-1 besides space, \t, \n, \r and \f
LatinSpace ==
  { "<x0b>", "<x1c>", "<x1d>", "<x1e>", "<x1f>", "<x85>", "<xa0>" }
\* the white space of Unicode beyond Latin-1
UnicodeSpace ==
  { "<u1680>", "<u2000>", "<u2001>", "<u2002>", "<u2003>", "<u2004>",
    "<u2005>", "<u2006>", "<u2007>", "<u2008>", "<u2009>", "<u200a>",
    "<u2028>", "<u2029>", "<u202f>", "<u205f>", "<u3000>" }
\* the letters and digits (\w) of Latin-1 beyond ASCII
LatinWord ==
  { "<xaa>", "<xb2>", "<xb3>", "<xb5>", "<xb9>", "<xba>", "<xbc>", "<xbd>",
    "<xbe>", "<xc0>", "<xc1>", "<xc2>", "<xc3>", "<xc4>", "<xc5>", "<xc6>",
    "<xc7>", "<xc8>", "<xc9>", "<xca>", "<xcb>", "<xcc>", "<xcd>", "<xce>",
    "<xcf>", "<xd0>", "<xd1>", "<xd2>", "<xd3>", "<xd4>", "<xd5>", "<xd6>",
    "<xd8>", "<xd9>", "<xda>", "<xdb>", "<xdc>", "<xdd>", "<xde>", "<xdf>",
    "<xe0>", "<xe1>", "<xe2>", "<xe3>", "<xe4>", "<xe5>", "<xe6>", "<xe7>",
    "<xe8>", "<xe9>", "<xea>", "<xeb>", "<xec>", "<xed>", "<xee>", "<xef>",
    "<xf0>", "<xf1>", "<xf2>", "<xf3>", "<xf4>", "<xf5>", "<xf6>", "<xf8>",
    "<xf9>", "<xfa>", "<xfb>", "<xfc>", "<xfd>", "<xfe>", "<xff>" }
\* beyond Latin-1: dotted capital I and dotless i (fold to i), long s (to s),
\* the Kelvin sign (to k)
FoldsToI == {"<u0130>", "<u0131>"}
FoldsToS == {"<u017f>"}
FoldsToK == {"<u212a>"}
FoldedLetters == FoldsToI \cup FoldsToS \cup FoldsToK

HexDigits ==
  <<"0", "1", "2", "3", "4", "5", "6", "7", "8", "9", "a", "b", "c", "d", "e", "f">>

\* n in hexadecimal, in width digits or more
RECURSIVE Hex(_, _)
Hex(n, width) ==
  IF n < 16 /\ width <= 1 THEN HexDigits[n + 1]
  ELSE Hex(n \div 16, width - 1) \o HexDigits[(n % 16) + 1]

\* the character of code point cp, beyond Latin-1
Chr(cp) == "<u" \o Hex(cp, 4) \o ">"

\* The code points beyond Latin-1 that \w of a str pattern matches, as
\* intervals <<first, last>>: the letters, the digits and the other numbers
\* of the Unicode database of the interpreter (Unicode 14 in Python 3.11).
WordRanges ==
  { <<256, 705>>, <<710, 721>>, <<736, 740>>, <<748, 748>>, <<750, 750>>,
    <<880, 884>>, <<886, 887>>, <<890, 893>>, <<895, 895>>, <<902, 902>>,
    <<904, 906>>, <<908, 908>>, <<910, 929>>, <<931, 1013>>, <<1015, 1153>>,
    <<1162, 1327>>, <<1329, 1366>>, <<1369, 1369>>, <<1376, 1416>>, <<1488,
    1514>>, <<1519, 1522>>, <<1568, 1610>>, <<1632, 1641>>, <<1646, 1647>>,
    <<1649, 1747>>, <<1749, 1749>>, <<1765, 1766>>, <<1774, 1788>>, <<1791,
    1791>>, <<1808, 1808>>, <<1810, 1839>>, <<1869, 1957>>, <<1969, 1969>>,
    <<1984, 2026>>, <<2036, 2037>>, <<2042, 2042>>, <<2048, 2069>>, <<2074,
    2074>>, <<2084, 2084>>, <<2088, 2088>>, <<2112, 2136>>, <<2144, 2154>>,
    <<2160, 2183>>, <<2185, 2190>>, <<2208, 2249>>, <<2308, 2361>>, <<2365,
    2365>>, <<2384, 2384>>, <<2392, 2401>>, <<2406, 2415>>, <<2417, 2432>>,
    <<2437, 2444>>, <<2447, 2448>>, <<2451, 2472>>, <<2474, 2480>>, <<2482,
    2482>>, <<2486, 2489>>, <<2493, 2493>>, <<2510, 2510>>, <<2524, 2525>>,
    <<2527, 2529>>, <<2534, 2545>>, <<2548, 2553>>, <<2556, 2556>>, <<2565,
    2570>>, <<2575, 2576>>, <<2579, 2600>>, <<2602, 2608>>, <<2610, 2611>>,
    <<2613, 2614>>, <<2616, 2617>>, <<2649, 2652>>, <<2654, 2654>>, <<2662,
    2671>>, <<2674, 2676>>, <<2693, 2701>>, <<2703, 2705>>, <<2707, 2728>>,
    <<2730, 2736>>, <<2738, 2739>>, <<2741, 2745>>, <<2749, 2749>>, <<2768,
    2768>>, <<2784, 2785>>, <<2790, 2799>>, <<2809, 2809>>, <<2821, 2828>>,
    <<2831, 2832>>, <<2835, 2856>>, <<2858, 2864>>, <<2866, 2867>>, <<2869,
    2873>>, <<2877, 2877>>, <<2908, 2909>>, <<2911, 2913>>, <<2918, 2927>>,
    <<2929, 2935>>, <<2947, 2947>>, <<2949, 2954>>, <<2958, 2960>>, <<2962,
    2965>>, <<2969, 2970>>, <<2972, 2972>>, <<2974, 2975>>, <<2979, 2980>>,
    <<2984, 2986>>, <<2990, 3001>>, <<3024, 3024>>, <<3046, 3058>>, <<3077,
    3084>>, <<3086, 3088>>, <<3090, 3112>>, <<3114, 3129>>, <<3133, 3133>>,
    <<3160, 3162>>, <<3165, 3165>>, <<3168, 3169>>, <<3174, 3183>>, <<3192,
    3198>>, <<3200, 3200>>, <<3205, 3212>>, <<3214, 3216>>, <<3218, 3240>>,
    <<3242, 3251>>, <<3253, 3257>>, <<3261, 3261>>, <<3293, 3294>>, <<3296,
    3297>>, <<3302, 3311>>, <<3313, 3314>>, <<3332, 3340>>, <<3342, 3344>>,
    <<3346, 3386>>, <<3389, 3389>>, <<3406, 3406>>, <<3412, 3414>>, <<3416,
    3425>>, <<3430, 3448>>, <<3450, 3455>>, <<3461, 3478>>, <<3482, 3505>>,
    <<3507, 3515>>, <<3517, 3517>>, <<3520, 3526>>, <<3558, 3567>>, <<3585,
    3632>>, <<3634, 3635>>, <<3648, 3654>>, <<3664, 3673>>, <<3713, 3714>>,
    <<3716, 3716>>, <<3718, 3722>>, <<3724, 3747>>, <<3749, 3749>>, <<3751,
    3760>>, <<3762, 3763>>, <<3773, 3773>>, <<3776, 3780>>, <<3782, 3782>>,
    <<3792, 3801>>, <<3804, 3807>>, <<3840, 3840>>, <<3872, 3891>>, <<3904,
    3911>>, <<3913, 3948>>, <<3976, 3980>>, <<4096, 4138>>, <<4159, 4169>>,
    <<4176, 4181>>, <<4186, 4189>>, <<4193, 4193>>, <<4197, 4198>>, <<4206,
    4208>>, <<4213, 4225>>, <<4238, 4238>>, <<4240, 4249>>, <<4256, 4293>>,
    <<4295, 4295>>, <<4301, 4301>>, <<4304, 4346>>, <<4348, 4680>>, <<4682,
    4685>>, <<4688, 4694>>, <<4696, 4696>>, <<4698, 4701>>, <<4704, 4744>>,
    <<4746, 4749>>, <<4752, 4784>>, <<4786, 4789>>, <<4792, 4798>>, <<4800,
    4800>>, <<4802, 4805>>, <<4808, 4822>>, <<4824, 4880>>, <<4882, 4885>>,
    <<4888, 4954>>, <<4969, 4988>>, <<4992, 5007>>, <<5024, 5109>>, <<5112,
    5117>>, <<5121, 5740>>, <<5743, 5759>>, <<5761, 5786>>, <<5792, 5866>>,
    <<5870, 5880>>, <<5888, 5905>>, <<5919, 5937>>, <<5952, 5969>>, <<5984,
    5996>>, <<5998, 6000>>, <<6016, 6067>>, <<6103, 6103>>, <<6108, 6108>>,
    <<6112, 6121>>, <<6128, 6137>>, <<6160, 6169>>, <<6176, 6264>>, <<6272,
    6276>>, <<6279, 6312>>, <<6314, 6314>>, <<6320, 6389>>, <<6400, 6430>>,
    <<6470, 6509>>, <<6512, 6516>>, <<6528, 6571>>, <<6576, 6601>>, <<6608,
    6618>>, <<6656, 6678>>, <<6688, 6740>>, <<6784, 6793>>, <<6800, 6809>>,
    <<6823, 6823>>, <<6917, 6963>>, <<6981, 6988>>, <<6992, 7001>>, <<7043,
    7072>>, <<7086, 7141>>, <<7168, 7203>>, <<7232, 7241>>, <<7245, 7293>>,
    <<7296, 7304>>, <<7312, 7354>>, <<7357, 7359>>, <<7401, 7404>>, <<7406,
    7411>>, <<7413, 7414>>, <<7418, 7418>>, <<7424, 7615>>, <<7680, 7957>>,
    <<7960, 7965>>, <<7968, 8005>>, <<8008, 8013>>, <<8016, 8023>>, <<8025,
    8025>>, <<8027, 8027>>, <<8029, 8029>>, <<8031, 8061>>, <<8064, 8116>>,
    <<8118, 8124>>, <<8126, 8126>>, <<8130, 8132>>, <<8134, 8140>>, <<8144,
    8147>>, <<8150, 8155>>, <<8160, 8172>>, <<8178, 8180>>, <<8182, 8188>>,
    <<8304, 8305>>, <<8308, 8313>>, <<8319, 8329>>, <<8336, 8348>>, <<8450,
    8450>>, <<8455, 8455>>, <<8458, 8467>>, <<8469, 8469>>, <<8473, 8477>>,
    <<8484, 8484>>, <<8486, 8486>>, <<8488, 8488>>, <<8490, 8493>>, <<8495,
    8505>>, <<8508, 8511>>, <<8517, 8521>>, <<8526, 8526>>, <<8528, 8585>>,
    <<9312, 9371>>, <<9450, 9471>>, <<10102, 10131>>, <<11264, 11492>>,
    <<11499, 11502>>, <<11506, 11507>>, <<11517, 11517>>, <<11520, 11557>>,
    <<11559, 11559>>, <<11565, 11565>>, <<11568, 11623>>, <<11631, 11631>>,
    <<11648, 11670>>, <<11680, 11686>>, <<11688, 11694>>, <<11696, 11702>>,
    <<11704, 11710>>, <<11712, 11718>>, <<11720, 11726>>, <<11728, 11734>>,
    <<11736, 11742>>, <<11823, 11823>>, <<12293, 12295>>, <<12321, 12329>>,
    <<12337, 12341>>, <<12344, 12348>>, <<12353, 12438>>, <<12445, 12447>>,
    <<12449, 12538>>, <<12540, 12543>>, <<12549, 12591>>, <<12593, 12686>>,
    <<12690, 12693>>, <<12704, 12735>>, <<12784, 12799>>, <<12832, 12841>>,
    <<12872, 12879>>, <<12881, 12895>>, <<12928, 12937>>, <<12977, 12991>>,
    <<13312, 19903>>, <<19968, 42124>>, <<42192, 42237>>, <<42240, 42508>>,
    <<42512, 42539>>, <<42560, 42606>>, <<42623, 42653>>, <<42656, 42735>>,
    <<42775, 42783>>, <<42786, 42888>>, <<42891, 42954>>, <<42960, 42961>>,
    <<42963, 42963>>, <<42965, 42969>>, <<42994, 43009>>, <<43011, 43013>>,
    <<43015, 43018>>, <<43020, 43042>>, <<43056, 43061>>, <<43072, 43123>>,
    <<43138, 43187>>, <<43216, 43225>>, <<43250, 43255>>, <<43259, 43259>>,
    <<43261, 43262>>, <<43264, 43301>>, <<43312, 43334>>, <<43360, 43388>>,
    <<43396, 43442>>, <<43471, 43481>>, <<43488, 43492>>, <<43494, 43518>>,
    <<43520, 43560>>, <<43584, 43586>>, <<43588, 43595>>, <<43600, 43609>>,
    <<43616, 43638>>, <<43642, 43642>>, <<43646, 43695>>, <<43697, 43697>>,
    <<43701, 43702>>, <<43705, 43709>>, <<43712, 43712>>, <<43714, 43714>>,
    <<43739, 43741>>, <<43744, 43754>>, <<43762, 43764>>, <<43777, 43782>>,
    <<43785, 43790>>, <<43793, 43798>>, <<43808, 43814>>, <<43816, 43822>>,
    <<43824, 43866>>, <<43868, 43881>>, <<43888, 44002>>, <<44016, 44025>>,
    <<44032, 55203>>, <<55216, 55238>>, <<55243, 55291>>, <<63744, 64109>>,
    <<64112, 64217>>, <<64256, 64262>>, <<64275, 64279>>, <<64285, 64285>>,
    <<64287, 64296>>, <<64298, 64310>>, <<64312, 64316>>, <<64318, 64318>>,
    <<64320, 64321>>, <<64323, 64324>>, <<64326, 64433>>, <<64467, 64829>>,
    <<64848, 64911>>, <<64914, 64967>>, <<65008, 65019>>, <<65136, 65140>>,
    <<65142, 65276>>, <<65296, 65305>>, <<65313, 65338>>, <<65345, 65370>>,
    <<65382, 65470>>, <<65474, 65479>>, <<65482, 65487>>, <<65490, 65495>>,
    <<65498, 65500>>, <<65536, 65547>>, <<65549, 65574>>, <<65576, 65594>>,
    <<65596, 65597>>, <<65599, 65613>>, <<65616, 65629>>, <<65664, 65786>>,
    <<65799, 65843>>, <<65856, 65912>>, <<65930, 65931>>, <<66176, 66204>>,
    <<66208, 66256>>, <<66273, 66299>>, <<66304, 66339>>, <<66349, 66378>>,
    <<66384, 66421>>, <<66432, 66461>>, <<66464, 66499>>, <<66504, 66511>>,
    <<66513, 66517>>, <<66560, 66717>>, <<66720, 66729>>, <<66736, 66771>>,
    <<66776, 66811>>, <<66816, 66855>>, <<66864, 66915>>, <<66928, 66938>>,
    <<66940, 66954>>, <<66956, 66962>>, <<66964, 66965>>, <<66967, 66977>>,
    <<66979, 66993>>, <<66995, 67001>>, <<67003, 67004>>, <<67072, 67382>>,
    <<67392, 67413>>, <<67424, 67431>>, <<67456, 67461>>, <<67463, 67504>>,
    <<67506, 67514>>, <<67584, 67589>>, <<67592, 67592>>, <<67594, 67637>>,
    <<67639, 67640>>, <<67644, 67644>>, <<67647, 67669>>, <<67672, 67702>>,
    <<67705, 67742>>, <<67751, 67759>>, <<67808, 67826>>, <<67828, 67829>>,
    <<67835, 67867>>, <<67872, 67897>>, <<67968, 68023>>, <<68028, 68047>>,
    <<68050, 68096>>, <<68112, 68115>>, <<68117, 68119>>, <<68121, 68149>>,
    <<68160, 68168>>, <<68192, 68222>>, <<68224, 68255>>, <<68288, 68295>>,
    <<68297, 68324>>, <<68331, 68335>>, <<68352, 68405>>, <<68416, 68437>>,
    <<68440, 68466>>, <<68472, 68497>>, <<68521, 68527>>, <<68608, 68680>>,
    <<68736, 68786>>, <<68800, 68850>>, <<68858, 68899>>, <<68912, 68921>>,
    <<69216, 69246>>, <<69248, 69289>>, <<69296, 69297>>, <<69376, 69415>>,
    <<69424, 69445>>, <<69457, 69460>>, <<69488, 69505>>, <<69552, 69579>>,
    <<69600, 69622>>, <<69635, 69687>>, <<69714, 69743>>, <<69745, 69746>>,
    <<69749, 69749>>, <<69763, 69807>>, <<69840, 69864>>, <<69872, 69881>>,
    <<69891, 69926>>, <<69942, 69951>>, <<69956, 69956>>, <<69959, 69959>>,
    <<69968, 70002>>, <<70006, 70006>>, <<70019, 70066>>, <<70081, 70084>>,
    <<70096, 70106>>, <<70108, 70108>>, <<70113, 70132>>, <<70144, 70161>>,
    <<70163, 70187>>, <<70272, 70278>>, <<70280, 70280>>, <<70282, 70285>>,
    <<70287, 70301>>, <<70303, 70312>>, <<70320, 70366>>, <<70384, 70393>>,
    <<70405, 70412>>, <<70415, 70416>>, <<70419, 70440>>, <<70442, 70448>>,
    <<70450, 70451>>, <<70453, 70457>>, <<70461, 70461>>, <<70480, 70480>>,
    <<70493, 70497>>, <<70656, 70708>>, <<70727, 70730>>, <<70736, 70745>>,
    <<70751, 70753>>, <<70784, 70831>>, <<70852, 70853>>, <<70855, 70855>>,
    <<70864, 70873>>, <<71040, 71086>>, <<71128, 71131>>, <<71168, 71215>>,
    <<71236, 71236>>, <<71248, 71257>>, <<71296, 71338>>, <<71352, 71352>>,
    <<71360, 71369>>, <<71424, 71450>>, <<71472, 71483>>, <<71488, 71494>>,
    <<71680, 71723>>, <<71840, 71922>>, <<71935, 71942>>, <<71945, 71945>>,
    <<71948, 71955>>, <<71957, 71958>>, <<71960, 71983>>, <<71999, 71999>>,
    <<72001, 72001>>, <<72016, 72025>>, <<72096, 72103>>, <<72106, 72144>>,
    <<72161, 72161>>, <<72163, 72163>>, <<72192, 72192>>, <<72203, 72242>>,
    <<72250, 72250>>, <<72272, 72272>>, <<72284, 72329>>, <<72349, 72349>>,
    <<72368, 72440>>, <<72704, 72712>>, <<72714, 72750>>, <<72768, 72768>>,
    <<72784, 72812>>, <<72818, 72847>>, <<72960, 72966>>, <<72968, 72969>>,
    <<72971, 73008>>, <<73030, 73030>>, <<73040, 73049>>, <<73056, 73061>>,
    <<73063, 73064>>, <<73066, 73097>>, <<73112, 73112>>, <<73120, 73129>>,
    <<73440, 73458>>, <<73648, 73648>>, <<73664, 73684>>, <<73728, 74649>>,
    <<74752, 74862>>, <<74880, 75075>>, <<77712, 77808>>, <<77824, 78894>>,
    <<82944, 83526>>, <<92160, 92728>>, <<92736, 92766>>, <<92768, 92777>>,
    <<92784, 92862>>, <<92864, 92873>>, <<92880, 92909>>, <<92928, 92975>>,
    <<92992, 92995>>, <<93008, 93017>>, <<93019, 93025>>, <<93027, 93047>>,
    <<93053, 93071>>, <<93760, 93846>>, <<93952, 94026>>, <<94032, 94032>>,
    <<94099, 94111>>, <<94176, 94177>>, <<94179, 94179>>, <<94208, 100343>>,
    <<100352, 101589>>, <<101632, 101640>>, <<110576, 110579>>, <<110581,
    110587>>, <<110589, 110590>>, <<110592, 110882>>, <<110928, 110930>>,
    <<110948, 110951>>, <<110960, 111355>>, <<113664, 113770>>, <<113776,
    113788>>, <<113792, 113800>>, <<113808, 113817>>, <<119520, 119539>>,
    <<119648, 119672>>, <<119808, 119892>>, <<119894, 119964>>, <<119966,
    119967>>, <<119970, 119970>>, <<119973, 119974>>, <<119977, 119980>>,
    <<119982, 119993>>, <<119995, 119995>>, <<119997, 120003>>, <<120005,
    120069>>, <<120071, 120074>>, <<120077, 120084>>, <<120086, 120092>>,
    <<120094, 120121>>, <<120123, 120126>>, <<120128, 120132>>, <<120134,
    120134>>, <<120138, 120144>>, <<120146, 120485>>, <<120488, 120512>>,
    <<120514, 120538>>, <<120540, 120570>>, <<120572, 120596>>, <<120598,
    120628>>, <<120630, 120654>>, <<120656, 120686>>, <<120688, 120712>>,
    <<120714, 120744>>, <<120746, 120770>>, <<120772, 120779>>, <<120782,
    120831>>, <<122624, 122654>>, <<123136, 123180>>, <<123191, 123197>>,
    <<123200, 123209>>, <<123214, 123214>>, <<123536, 123565>>, <<123584,
    123627>>, <<123632, 123641>>, <<124896, 124902>>, <<124904, 124907>>,
    <<124909, 124910>>, <<124912, 124926>>, <<124928, 125124>>, <<125127,
    125135>>, <<125184, 125251>>, <<125259, 125259>>, <<125264, 125273>>,
    <<126065, 126123>>, <<126125, 126127>>, <<126129, 126132>>, <<126209,
    126253>>, <<126255, 126269>>, <<126464, 126467>>, <<126469, 126495>>,
    <<126497, 126498>>, <<126500, 126500>>, <<126503, 126503>>, <<126505,
    126514>>, <<126516, 126519>>, <<126521, 126521>>, <<126523, 126523>>,
    <<126530, 126530>>, <<126535, 126535>>, <<126537, 126537>>, <<126539,
    126539>>, <<126541, 126543>>, <<126545, 126546>>, <<126548, 126548>>,
    <<126551, 126551>>, <<126553, 126553>>, <<126555, 126555>>, <<126557,
    126557>>, <<126559, 126559>>, <<126561, 126562>>, <<126564, 126564>>,
    <<126567, 126570>>, <<126572, 126578>>, <<126580, 126583>>, <<126585,
    126588>>, <<126590, 126590>>, <<126592, 126601>>, <<126603, 126619>>,
    <<126625, 126627>>, <<126629, 126633>>, <<126635, 126651>>, <<127232,
    127244>>, <<130032, 130041>>, <<131072, 173791>>, <<173824, 177976>>,
    <<177984, 178205>>, <<178208, 183969>>, <<183984, 191456>>, <<194560,
    195101>>, <<196608, 201546>> }
\* the code points beyond Latin-1 that \d of a str pattern matches: the
\* decimal digits of the scripts of Unicode
DecimalRanges ==
  { <<1632, 1641>>, <<1776, 1785>>, <<1984, 1993>>, <<2406, 2415>>, <<2534,
    2543>>, <<2662, 2671>>, <<2790, 2799>>, <<2918, 2927>>, <<3046, 3055>>,
    <<3174, 3183>>, <<3302, 3311>>, <<3430, 3439>>, <<3558, 3567>>, <<3664,
    3673>>, <<3792, 3801>>, <<3872, 3881>>, <<4160, 4169>>, <<4240, 4249>>,
    <<6112, 6121>>, <<6160, 6169>>, <<6470, 6479>>, <<6608, 6617>>, <<6784,
    6793>>, <<6800, 6809>>, <<6992, 7001>>, <<7088, 7097>>, <<7232, 7241>>,
    <<7248, 7257>>, <<42528, 42537>>, <<43216, 43225>>, <<43264, 43273>>,
    <<43472, 43481>>, <<43504, 43513>>, <<43600, 43609>>, <<44016, 44025>>,
    <<65296, 65305>>, <<66720, 66729>>, <<68912, 68921>>, <<69734, 69743>>,
    <<69872, 69881>>, <<69942, 69951>>, <<70096, 70105>>, <<70384, 70393>>,
    <<70736, 70745>>, <<70864, 70873>>, <<71248, 71257>>, <<71360, 71369>>,
    <<71472, 71481>>, <<71904, 71913>>, <<72016, 72025>>, <<72784, 72793>>,
    <<73040, 73049>>, <<73120, 73129>>, <<92768, 92777>>, <<92864, 92873>>,
    <<93008, 93017>>, <<120782, 120831>>, <<123200, 123209>>, <<123632,
    123641>>, <<125264, 125273>>, <<130032, 130041>> }
UnicodeWord    == {Chr(cp) : cp \in UNION {r[1]..r[2] : r \in WordRanges}}
UnicodeDecimal == {Chr(cp) : cp \in UNION {r[1]..r[2] : r \in DecimalRanges}}

\* \s of a str pattern, and what str.strip() strips
Space == {" ", "\t", "\n", "\r", "\f"} \cup LatinSpace \cup UnicodeSpace
\* \w of a str pattern
Word  == Lower \cup Upper \cup Digit \cup {"_"} \cup LatinWord \cup UnicodeWord
\* \d of a str pattern
Decimal == Digit \cup UnicodeDecimal
\* The grave accent (U+0060), which a TLA+ string literal cannot hold.
BACKTICK == "<backtick>"

----------------------------------------------------------------------------
(* A backtracking matcher with the semantics of Python's re.               *)
(* A pattern is a record:                                                  *)
(*   [t |-> "in",    cs]              one character of the set cs          *)
(*   [t |-> "notin", cs]              one character outside cs             *)
(*   [t |-> "bol"]                    ^                                    *)
(*   [t |-> "behind", cs]             (?<=c), c in cs                      *)
(*   [t |-> "ahead", cs]              (?=c), c in cs                       *)
(*   [t |-> "cat", xs]                the patterns of xs one after another *)
(*   [t |-> "alt", xs]                x1|x2|...                            *)
(*   [t |-> "rep", x, min, max, greedy]   x{min,max}; max = -1: no limit   *)
(* Ends(re, s, i) lists the offsets at which a match of re starting at     *)
(* offset i can end, in the order the backtracking engine tries them: its  *)
(* head is the match the engine reports.                                   *)

In(cs)    == [t |-> "in", cs |-> cs]
NotIn(cs) == [t |-> "notin", cs |-> cs]
Lit(c)    == In({c})
Dot       == NotIn({"\n"})
Bol       == [t |-> "bol"]
Behind(cs) == [t |-> "behind", cs |-> cs]
Ahead(cs)  == [t |-> "ahead", cs |-> cs]
Cat(xs)   == [t |-> "cat", xs |-> xs]
Alt(xs)   == [t |-> "alt", xs |-> xs]
Rep(x, lo, hi)     == [t |-> "rep", x |-> x, min |-> lo, max |-> hi, greedy |-> TRUE]
LazyRep(x, lo, hi) == [t |-> "rep", x |-> x, min |-> lo, max |-> hi, greedy |-> FALSE]
Opt(x)    == Rep(x, 0, 1)
\* a literal string, one Lit per character
Literal(cs) == Cat([i \in 1..Len(cs) |-> Lit(cs[i])])

RECURSIVE Ends(_, _, _), CatEnds(_, _, _), AltEnds(_, _, _), RepEnds(_, _, _, _, _, _), RepMore(_, _, _, _, _, _)

Ends(re, s, i) ==
  CASE re.t = "in"     -> IF i < Len(s) /\ s[i + 1] \in re.cs THEN <<i + 1>> ELSE <<>>
    [] re.t = "notin"  -> IF i < Len(s) /\ s[i + 1] \notin re.cs THEN <<i + 1>> ELSE <<>>
    [] re.t = "bol"    -> IF i = 0 THEN <<i>> ELSE <<>>
    [] re.t = "behind" -> IF i > 0 /\ s[i] \in re.cs THEN <<i>> ELSE <<>>
    [] re.t = "ahead"  -> IF i < Len(s) /\ s[i + 1] \in re.cs THEN <<i>> ELSE <<>>
    [] re.t = "cat"    -> CatEnds(re.xs, s, <<i>>)
    [] re.t = "alt"    -> AltEnds(re.xs, s, i)
    [] re.t = "rep"    -> RepEnds(re.x, re.min, IF re.max < 0 THEN Len(s) + 1 ELSE re.max,
                                  re.greedy, s, i)

\* the ends of xs matched in sequence from each offset of from, in order
CatEnds(xs, s, from) ==
  IF from = <<>> THEN <<>>
  ELSE IF xs = <<>> THEN from
  ELSE CatEnds(Tail(xs), s, Ends(Head(xs), s, Head(from)))
       \o CatEnds(xs, s, Tail(from))

AltEnds(xs, s, i) ==
  IF xs = <<>> THEN <<>> ELSE Ends(Head(xs), s, i) \o AltEnds(Tail(xs), s, i)

\* x{lo,hi} from offset i: a greedy repeat tries one more x first, a lazy one last
RepEnds(x, lo, hi, greedy, s, i) ==
  LET stop == IF lo = 0 THEN <<i>> ELSE <<>>
      more == IF hi > 0
              THEN RepMore(x, Max(lo - 1, 0), hi - 1, greedy, s,
                           SelectSeq(Ends(x, s, i), LAMBDA e : e > i))
              ELSE <<>>
  IN  IF greedy THEN more \o stop ELSE stop \o more

RepMore(x, lo, hi, greedy, s, from) ==
  IF from = <<>> THEN <<>>
  ELSE RepEnds(x, lo, hi, greedy, s, Head(from))
       \o RepMore(x, lo, hi, greedy, s, Tail(from))

NoMatch == <<>>

\* re.match at offset i: the span <<i, end>>, or NoMatch
MatchAt(re, s, i) ==
  LET es == Ends(re, s, i) IN IF es = <<>> THEN NoMatch ELSE <<i, Head(es)>>

\* re.search(re, s) from the offset from: the leftmost match's span, or NoMatch
RECURSIVE SearchFrom(_, _, _)
SearchFrom(re, s, from) ==
  IF from > Len(s) THEN NoMatch
  ELSE LET m == MatchAt(re, s, from)
       IN  IF m # NoMatch THEN m ELSE SearchFrom(re, s, from + 1)

Search(re, s) == SearchFrom(re, s, 0)

\* [m.span() for m in re.finditer(re, s)]: successive non-overlapping matches
RECURSIVE FindIterFrom(_, _, _)
FindIterFrom(re, s, from) ==
  LET m == SearchFrom(re, s, from)
  IN  IF m = NoMatch THEN <<>>
      ELSE <<m>> \o FindIterFrom(re, s, IF m[2] > m[1] THEN m[2] ELSE m[2] + 1)

FindIter(re, s) == FindIterFrom(re, s, 0)

----------------------------------------------------------------------------
(* rn2md.py: the module's patterns and guards                              *)

LowerSeq == <<"a", "b", "c", "d", "e", "f", "g", "h", "i", "j", "k", "l", "m",
              "n", "o", "p", "q", "r", "s", "t", "u", "v", "w", "x", "y", "z">>
UpperSeq == <<"A", "B", "C", "D", "E", "F", "G", "H", "I", "J", "K", "L", "M",
              "N", "O", "P", "Q", "R", "S", "T", "U", "V", "W", "X", "Y", "Z">>

\* re.IGNORECASE on a literal: each letter matches in either case
BothCases(c) ==
  IF c \in Lower \cup Upper
  THEN LET i == CHOOSE j \in 1..26 : LowerSeq[j] = c \/ UpperSeq[j] = c
       IN  {LowerSeq[i], UpperSeq[i]}
             \cup (IF LowerSeq[i] = "i" THEN FoldsToI ELSE {})
             \cup (IF LowerSeq[i] = "s" THEN FoldsToS ELSE {})
             \cup (IF LowerSeq[i] = "k" THEN FoldsToK ELSE {})
  ELSE {c}
ILiteral(cs) == Cat([i \in 1..Len(cs) |-> In(BothCases(cs[i]))])

\* [A-Z], IGNORECASE
Letters   == Lower \cup Upper \cup FoldedLetters
AlNum     == In(Letters \cup Digit)                      \* [A-Z0-9], IGNORECASE
AlNumDash == In(Letters \cup Digit \cup {"-"})           \* [A-Z0-9-], IGNORECASE
Alpha     == In(Letters)                                 \* [A-Z], IGNORECASE
Digits13  == Rep(In(Decimal), 1, 3)                      \* \d{1,3}

\* ^(?:http|file|ftp)s?://
\* (?:(?:[A-Z0-9](?:[A-Z0-9-]{0,61}[A-Z0-9])?\.)+(?:[A-Z]{2,6}\.?|[A-Z0-9-]{2,}\.?)|
\*    \d{1,3}\.\d{1,3}\.\d{1,3}\.\d{1,3})(?::\d+)?
URL_PATTERN ==
  Cat(<< Bol,
         Alt(<<ILiteral(<<"h", "t", "t", "p">>), ILiteral(<<"f", "i", "l", "e">>),
               ILiteral(<<"f", "t", "p">>)>>),
         Opt(In(BothCases("s"))),
         Literal(<<":", "/", "/">>),
         Alt(<< Cat(<< Rep(Cat(<<AlNum, Opt(Cat(<<Rep(AlNumDash, 0, 61), AlNum>>)),
                                 Lit(".")>>), 1, -1),
                       Alt(<< Cat(<<Rep(Alpha, 2, 6), Opt(Lit("."))>>),
                              Cat(<<Rep(AlNumDash, 2, -1), Opt(Lit("."))>>) >>) >>),
                Cat(<<Digits13, Lit("."), Digits13, Lit("."), Digits13, Lit("."),
                      Digits13>>) >>),
         Opt(Cat(<<Lit(":"), Rep(In(Decimal), 1, -1)>>)) >>)

\* \[.*?\]\(.*?\)
LINK_PATTERN ==
  Cat(<<Lit("["), LazyRep(Dot, 0, -1), Lit("]"), Lit("("), LazyRep(Dot, 0, -1), Lit(")")>>)

\* BACKTICK .*? BACKTICK
BACKTICK_PATTERN == Cat(<<Lit(BACKTICK), LazyRep(Dot, 0, -1), Lit(BACKTICK)>>)

RangesIntersect(v, u) == v[2] >= u[1] /\ u[2] >= v[1]

Span(s) == <<0, Len(s)>>

\* match is the span of a match found in s (match.span(), match.string)
OccursInUrl(match, s) ==
  LET occurrences == FindIter(URL_PATTERN, s) \o FindIter(LINK_PATTERN, s)
  IN  \E i \in 1..Len(occurrences) : RangesIntersect(match, occurrences[i])

OccursInBacktick(match, s) ==
  LET occurrences == FindIter(BACKTICK_PATTERN, s)
  IN  \E i \in 1..Len(occurrences) : RangesIntersect(match, occurrences[i])

----------------------------------------------------------------------------
(* The delimiter rules: TranslateItalics, TranslateStrikethroughs          *)

\* iterutils.grouper(2, matches): consecutive pairs, the last padded with None
RECURSIVE Grouper2(_)
Grouper2(ms) ==
  IF ms = <<>> THEN <<>>
  ELSE IF Len(ms) = 1 THEN << <<ms[1], NoMatch>> >>
  ELSE << <<ms[1], ms[2]>> >> \o Grouper2(SubSeq(ms, 3, Len(ms)))

\* [(lo.start(), hi.end()) for lo, hi in pairs if all((lo, hi))]
PairRanges(pairs) ==
  LET whole == SelectSeq(pairs, LAMBDA p : p[1] # NoMatch /\ p[2] # NoMatch)
  IN  [i \in 1..Len(whole) |-> <<whole[i][1][1], whole[i][2][2]>>]

\* the matches of delimiter delim that no guard suppresses
Unguarded(delim, s) ==
  SelectSeq(FindIter(Literal(delim), s),
            LAMBDA m : ~OccursInUrl(m, s) /\ ~OccursInBacktick(m, s))

TranslateItalics_FindRanges(s) == PairRanges(Grouper2(Unguarded(<<"/", "/">>, s)))

\* Transform that cuts one character of the closing delimiter, not two
TranslateItalics_Transform_OffByOne(old) == <<"_">> \o PySlice(old, 2, -1) \o <<"_">>

TranslateItalics_Transform(old) == <<"_">> \o PySlice(old, 2, -2) \o <<"_">>

TranslateStrikethroughs_FindRanges(s) == PairRanges(Grouper2(Unguarded(<<"-", "-">>, s)))

TranslateStrikethroughs_Transform(old) == <<"~", "~">> \o PySlice(old, 2, -2) \o <<"~", "~">>

----------------------------------------------------------------------------
(* TranslateImages, TranslateLinks, TranslateBackticks,                    *)
(* EscapeInnerUnderscores                                                  *)

\* \[""file://.*?""\.(jpg|tif|png|gif)\]
ImagePattern ==
  Cat(<< Literal(<<"[", "\"", "\"", "f", "i", "l", "e", ":", "/", "/">>),
         LazyRep(Dot, 0, -1),
         Literal(<<"\"", "\"", ".">>),
         Alt(<<Literal(<<"j", "p", "g">>), Literal(<<"t", "i", "f">>),
               Literal(<<"p", "n", "g">>), Literal(<<"g", "i", "f">>)>>),
         Lit("]") >>)

TranslateImages_FindRanges(s) == FindIter(ImagePattern, s)

TranslateImages_Transform(old) ==
  <<"!", "[", "]", "(">> \o PySlice(old, 5, -7) \o PySlice(old, -5, -1) \o <<")">>

\* \[[^"].*?""\]
LinkPattern ==
  Cat(<<Lit("["), NotIn({"\""}), LazyRep(Dot, 0, -1), Literal(<<"\"", "\"", "]">>)>>)

\* \s""
SpaceQuotes == Cat(<<In(Space), Lit("\""), Lit("\"")>>)

TranslateLinks_FindRanges(s) == FindIter(LinkPattern, s)

\* str.strip()
RECURSIVE LStrip(_)
LStrip(s) == IF s # <<>> /\ Head(s) \in Space THEN LStrip(Tail(s)) ELSE s
Strip(s) == Reversed(LStrip(Reversed(LStrip(s))))

\* s.replace(c, to) for a one-character c
RECURSIVE Replace(_, _, _)
Replace(s, c, to) ==
  IF s = <<>> THEN <<>>
  ELSE (IF Head(s) = c THEN to ELSE <<Head(s)>>) \o Replace(Tail(s), c, to)

\* re.search(r'\s""', old) is None, and .end() raises AttributeError
TranslateLinks_TransformRaises(old) == Search(SpaceQuotes, old) = NoMatch

TranslateLinks_Transform(old) ==
  LET m == Search(SpaceQuotes, old)
      url_span == <<m[2], Len(old) - 3>>
      name_span == <<1, m[1]>>
      name == Strip(PySlice(old, name_span[1], name_span[2]))
      url == Strip(PySlice(old, url_span[1], url_span[2]))
  IN  <<"[">> \o name \o <<"]", "(">>
      \o Replace(Replace(url, "_", <<"\\", "_">>), "*", <<"\\", "*">>) \o <<")">>

\* BACKTICK BACKTICK .*? BACKTICK BACKTICK
DoubleBacktickPattern ==
  Cat(<<Lit(BACKTICK), Lit(BACKTICK), LazyRep(Dot, 0, -1), Lit(BACKTICK), Lit(BACKTICK)>>)

TranslateBackticks_FindRanges(s) ==
  SelectSeq(FindIter(DoubleBacktickPattern, s), LAMBDA m : ~OccursInUrl(m, s))

TranslateBackticks_Transform(old) == PySlice(old, 1, -1)

\* (?<=\w)_(?=\w)
InnerUnderscorePattern == Cat(<<Behind(Word), Lit("_"), Ahead(Word)>>)

EscapeInnerUnderscores_FindRanges(s) ==
  SelectSeq(FindIter(InnerUnderscorePattern, s),
            LAMBDA m : ~OccursInUrl(m, s) /\ ~OccursInBacktick(m, s))

EscapeInnerUnderscores_Transform(old) == <<"\\", "_">>

----------------------------------------------------------------------------
(* TranslateHeaders                                                        *)

NotEquals == NotIn({"="})                            \* [^=]
LeadingEquals == Cat(<<Bol, Rep(Lit("="), 1, -1)>>)  \* ^=+

\* FindRanges without the comparison of the two runs
TranslateHeaders_FindRanges_Unequal(s) ==
  LET affixes == <<Search(NotEquals, s), Search(NotEquals, Reversed(s))>>
  IN  IF \A i \in 1..2 : affixes[i] # NoMatch /\ affixes[i][1] # 0
      THEN <<Span(s)>>
      ELSE <<>>

TranslateHeaders_FindRanges(s) ==
  LET affixes == <<Search(NotEquals, s), Search(NotEquals, Reversed(s))>>
  IN  IF \A i \in 1..2 : affixes[i] # NoMatch /\ affixes[i][1] # 0
      THEN IF affixes[1][1] = affixes[2][1] THEN <<Span(s)>> ELSE <<>>
      ELSE <<>>

\* re.search(r"^=+", old) is None, and .end() raises AttributeError
TranslateHeaders_TransformRaises(old) == Search(LeadingEquals, old) = NoMatch

TranslateHeaders_Transform(p, old) ==
  LET level == Search(LeadingEquals, old)[2]
  IN  Repeat("#", p + level) \o <<" ">> \o PySlice(old, level, -level)

----------------------------------------------------------------------------
(* TranslateLists                                                          *)

\* ^\s*(\+|-)\s
ListPattern == Cat(<<Bol, Rep(In(Space), 0, -1), Alt(<<Lit("+"), Lit("-")>>), In(Space)>>)

\* m.span(1): group 1 is the one character before the pattern's closing \s
Group1(m) == <<m[2] - 2, m[2] - 1>>

\* _UpdateMisses without the reset of the history
UpdateMisses_NoReset(h, missed) == <<h, TRUE>>

\* _UpdateMisses: the instance's <<history, missed_one>> afterwards
UpdateMisses(h, missed) == IF missed THEN <<<<>>, missed>> ELSE <<h, TRUE>>

\* _ResizeHistory that keeps nothing of the old history
ResizeHistory_Fresh(h, size) == << Repeat(0, size), FALSE >>

\* _ResizeHistory: the instance's <<history, missed_one>> afterwards
ResizeHistory(h, size) ==
  << PySlice(h, 0, size) \o Repeat(0, Max(size - Len(h), 0)), FALSE >>

\* history[-1] += 1
BumpLast(h) == [h EXCEPT ![Len(h)] = @ + 1]

\* FindRanges: [history |-> .., missed_one |-> .., ranges |-> the value returned]
TranslateLists_FindRanges(h, missed, s) ==
  LET m == Search(ListPattern, s)
  IN  IF m = NoMatch
      THEN LET st == UpdateMisses(h, missed)
           IN  [history |-> st[1], missed_one |-> st[2], ranges |-> <<>>]
      ELSE LET st == ResizeHistory(h, Group1(m)[2])
           IN  IF s[Group1(m)[1] + 1] = "+"
               THEN [history |-> BumpLast(st[1]), missed_one |-> st[2],
                     ranges |-> <<Group1(m)>>]
               ELSE [history |-> st[1], missed_one |-> st[2], ranges |-> <<>>]

\* history[-1] of an empty list raises IndexError
TranslateLists_TransformRaises(h) == h = <<>>

TranslateLists_Transform(h, old) == Str(h[Len(h)]) \o <<".">>

----------------------------------------------------------------------------
(* FirstLineToHeader                                                       *)

\* FindRanges that finds nothing in an empty line
FirstLineToHeader_FindRanges_SkipEmpty(past, s) ==
  IF past \/ s = <<>> THEN <<>> ELSE <<Span(s)>>

FirstLineToHeader_FindRanges(past, s) == IF past THEN <<>> ELSE <<Span(s)>>

FirstLineToHeader_Transform(old) == <<"#", " ">> \o old

----------------------------------------------------------------------------
(* Morpher                                                                 *)

\* Morpher.FindRanges and Morpher.Transform, the defaults of the base class
Morpher_FindRanges(s) == <<>>
Morpher_Transform(old) == old

\* the Transform overrides a Morpher subclass is given in the generic runs:
\* none (the base class's), one that deletes the match, one that brackets it
Transforms == {"default", "delete", "bracket"}
ApplyTransform(t, old) ==
  CASE t = "default" -> Morpher_Transform(old)
    [] t = "delete"  -> <<>>
    [] t = "bracket" -> <<"<">> \o old \o <<">">>

\* self.Transform(old): the method of the class of self.  self is the record
\* [rule, padding, history, transform] of the instance's class and fields.
Transform(self, old) ==
  CASE self.rule = "TranslateHeaders"        -> TranslateHeaders_Transform(self.padding, old)
    [] self.rule = "TranslateBackticks"      -> TranslateBackticks_Transform(old)
    [] self.rule = "TranslateImages"         -> TranslateImages_Transform(old)
    [] self.rule = "TranslateLinks"          -> TranslateLinks_Transform(old)
    [] self.rule = "TranslateItalics"        -> TranslateItalics_Transform(old)
    [] self.rule = "TranslateStrikethroughs" -> TranslateStrikethroughs_Transform(old)
    [] self.rule = "EscapeInnerUnderscores"  -> EscapeInnerUnderscores_Transform(old)
    [] self.rule = "TranslateLists"          -> TranslateLists_Transform(self.history, old)
    [] self.rule = "FirstLineToHeader"       -> FirstLineToHeader_Transform(old)
    [] self.rule = "Morpher"                 -> ApplyTransform(self.transform, old)

\* self.Transform(old) raises instead of returning
TransformRaises(self, old) ==
  CASE self.rule = "TranslateHeaders" -> TranslateHeaders_TransformRaises(old)
    [] self.rule = "TranslateLinks"   -> TranslateLinks_TransformRaises(old)
    [] self.rule = "TranslateLists"   -> TranslateLists_TransformRaises(self.history)
    [] OTHER -> FALSE

\* Morpher.__call__ ends in an exception: Transform raises on a found substring
AnyRaises(self, s, found) ==
  \E i \in 1..Len(found) : TransformRaises(self, PySlice(s, found[i][1], found[i][2]))

\* Morpher.__call__(s), where found is what self.FindRanges(s) returned
MorpherCall(self, s, found) ==
  LET rs == <<<<0, 0>>>> \o found \o <<<<Len(s), Len(s)>>>>
      \* the i-th triple of zip(ranges[:-2], ranges[1:-1], ranges[2:])
      piece(i) ==
        LET prevhi == rs[i][2]
            currlo == rs[i + 1][1]
            currhi == rs[i + 1][2]
            nextlo == rs[i + 2][1]
        IN  (IF i = 1 THEN PySlice(s, prevhi, currlo) ELSE <<>>)
            \o Transform(self, PySlice(s, currlo, currhi))
            \o PySlice(s, currhi, nextlo)
      out == Concat([i \in 1..Len(found) |-> piece(i)])
  IN  IF out # <<>> THEN out ELSE s

----------------------------------------------------------------------------
(* smartpwd.py                                                             *)

SEPERATOR == <<".", ".", ".", "/">>

\* p.rfind("/") + 1: the offset just past the last slash, 0 without any
RFindSlash1(p) ==
  LET at == {i \in 1..Len(p) : p[i] = "/"}
  IN  IF at = {} THEN 0 ELSE CHOOSE i \in at : \A j \in at : j <= i

\* s.rstrip("/")
RECURSIVE RStripSlash(_)
RStripSlash(s) ==
  IF s # <<>> /\ s[Len(s)] = "/" THEN RStripSlash(SubSeq(s, 1, Len(s) - 1)) ELSE s

\* os.path.split(p): <<head, tail>>
PathSplit(p) ==
  LET i == RFindSlash1(p)
      head == PySlice(p, 0, i)
      tail == PySliceFrom(p, i)
  IN  IF head # <<>> /\ head # Repeat("/", Len(head))
      THEN <<RStripSlash(head), tail>>
      ELSE <<head, tail>>

smartpwd(pwd, hm, mx) ==
  LET pwd1 == IF StartsWith(pwd, hm) THEN <<"~">> \o PySliceFrom(pwd, Len(hm)) ELSE pwd
  IN  IF Len(pwd1) > mx
      THEN LET head == PathSplit(pwd1)[1]
               tail == PathSplit(pwd1)[2]
               available_space == Max(0, mx - Len(tail) - Len(SEPERATOR))
           IN  PySlice(head, 0, available_space) \o SEPERATOR \o tail
      ELSE pwd1

----------------------------------------------------------------------------
(* FormatDay: the pipeline of rules run over the lines of one day          *)

\* self.FindRanges(s) of a rule that keeps no state
FindRanges(r, s) ==
  CASE r = "TranslateHeaders"        -> TranslateHeaders_FindRanges(s)
    [] r = "TranslateBackticks"      -> TranslateBackticks_FindRanges(s)
    [] r = "TranslateImages"         -> TranslateImages_FindRanges(s)
    [] r = "TranslateLinks"          -> TranslateLinks_FindRanges(s)
    [] r = "TranslateItalics"        -> TranslateItalics_FindRanges(s)
    [] r = "TranslateStrikethroughs" -> TranslateStrikethroughs_FindRanges(s)
    [] r = "EscapeInnerUnderscores"  -> EscapeInnerUnderscores_FindRanges(s)

\* the two programs that define FormatDay
Programs == {"rn2md", "rn2md_range"}

\* the rules FormatDay composes, in order; rn2md_range.py has no TranslateBackticks
PipelineRules(prog) ==
  IF prog = "rn2md"
  THEN <<"TranslateHeaders", "TranslateBackticks", "TranslateImages", "TranslateLinks",
         "TranslateItalics", "TranslateLists", "TranslateStrikethroughs",
         "EscapeInnerUnderscores">>
  ELSE <<"TranslateHeaders", "TranslateImages", "TranslateLinks", "TranslateItalics",
         "TranslateLists", "TranslateStrikethroughs", "EscapeInnerUnderscores">>

\* TranslateHeaders(padding=1)
PipelinePadding == 1

\* the element of a one-element set; binding a value as the element of a set
\* has it computed once, before it is used
TheOne(S) == CHOOSE v \in S : TRUE

\* Morpher.__call__ of the pipeline's instance of rule r on x.string, where fr
\* is what self.FindRanges(x.string) returned and left in the instance.  x is
\* the record [string, history, missed_one, raised]: the line on its way
\* through the pipeline, the fields of the pipeline's TranslateLists instance,
\* and whether a rule raised.
ApplyFound(r, x, fr) ==
  LET self == [rule |-> r, padding |-> PipelinePadding, history |-> fr.history,
               transform |-> "default"]
  IN  IF AnyRaises(self, x.string, fr.ranges)
      THEN [string |-> x.string, history |-> fr.history,
            missed_one |-> fr.missed_one, raised |-> TRUE]
      ELSE [string |-> MorpherCall(self, x.string, fr.ranges), history |-> fr.history,
            missed_one |-> fr.missed_one, raised |-> FALSE]

\* one rule of the pipeline called on x.string
ApplyRule(r, x) ==
  IF x.raised THEN x
  ELSE TheOne({ApplyFound(r, x, fr) :
               fr \in {IF r = "TranslateLists"
                       THEN TranslateLists_FindRanges(x.history, x.missed_one, x.string)
                       ELSE [history |-> x.history, missed_one |-> x.missed_one,
                             ranges |-> FindRanges(r, x.string)]}})

\* ComposeLeft(*functions)(x): the functions applied left to right
RECURSIVE ComposeLeft(_, _)
ComposeLeft(functions, x) ==
  IF functions = <<>> THEN x
  ELSE TheOne({ComposeLeft(Tail(functions), y) : y \in {ApplyRule(Head(functions), x)}})

\* s.split(c) for a one-character c
RECURSIVE Split(_, _)
Split(s, c) ==
  LET at == {i \in 1..Len(s) : s[i] = c}
  IN  IF at = {} THEN <<s>>
      ELSE LET i == CHOOSE k \in at : \A j \in at : k <= j
           IN  <<SubSeq(s, 1, i - 1)>> \o Split(SubSeq(s, i + 1, Len(s)), c)

\* sep.join(ss)
RECURSIVE Join(_, _)
Join(sep, ss) ==
  IF ss = <<>> THEN <<>>
  ELSE IF Len(ss) = 1 THEN Head(ss)
  ELSE Head(ss) \o sep \o Join(sep, Tail(ss))

\* s.rstrip()
RStrip(s) == Reversed(LStrip(Reversed(s)))

\* [line.rstrip() for line in text.split("\n")]
BodyLines(txt) ==
  LET ls == Split(txt, "\n") IN [i \in 1..Len(ls) |-> RStrip(ls[i])]

MonthAbbr ==
  << <<"J", "a", "n">>, <<"F", "e", "b">>, <<"M", "a", "r">>, <<"A", "p", "r">>,
     <<"M", "a", "y">>, <<"J", "u", "n">>, <<"J", "u", "l">>, <<"A", "u", "g">>,
     <<"S", "e", "p">>, <<"O", "c", "t">>, <<"N", "o", "v">>, <<"D", "e", "c">> >>

\* day.strftime("%b %d, %Y") for a date [year, month, day] with a 4-digit year
Strftime(d) ==
  MonthAbbr[d.month] \o <<" ">>
    \o (IF d.day < 10 THEN <<"0">> ELSE <<>>) \o Str(d.day)
    \o <<",", " ">> \o Str(d.year)

\* map(rn2md, body), run to the end or to the first line on which a rule
\* raises.  acc is the record [formatted, history, missed_one, raised].
RECURSIVE MapLines(_, _, _)
MapLines(prog, lines, acc) ==
  IF lines = <<>> \/ acc.raised THEN acc
  ELSE TheOne({MapLines(prog, Tail(lines),
                        [formatted |-> IF y.raised THEN acc.formatted
                                       ELSE Append(acc.formatted, y.string),
                         history |-> y.history, missed_one |-> y.missed_one,
                         raised |-> y.raised]) :
               y \in {ComposeLeft(PipelineRules(prog),
                                  [string |-> Head(lines), history |-> acc.history,
                                   missed_one |-> acc.missed_one, raised |-> FALSE])}})

\* what FormatDay returns for the head and the formatted lines
FormatDay_Result(prog, d, lines) ==
  LET formatted_head == <<"#", " ">> \o Strftime(d)
      formatted_body == Join(<<"\n">>, lines)
  IN  IF prog = "rn2md"
      THEN IF formatted_body # <<>>
           THEN formatted_head \o <<"\n">> \o RStrip(formatted_body)
           ELSE RStrip(formatted_head)
      ELSE IF formatted_body # <<>>
           THEN formatted_head \o <<"\n">> \o formatted_body
           ELSE formatted_head

\* FormatDay(d, database) of program prog, where txt is database[d]: the
\* record [raised, output].  The pipeline, and with it its TranslateLists
\* instance, is constructed by the call.
FormatDay(prog, d, txt) ==
  TheOne({[raised |-> m.raised,
           output |-> IF m.raised THEN <<>> ELSE FormatDay_Result(prog, d, m.formatted)] :
          m \in {MapLines(prog, BodyLines(txt),
                          [formatted |-> <<>>, history |-> <<>>, missed_one |-> FALSE,
                           raised |-> FALSE])}})

----------------------------------------------------------------------------
(* Inputs.  A line is a concatenation of at most MaxTokens tokens of the   *)
(* syntax a rule reads, or one of the example lines of the documentation.  *)

MaxTokens     == 5    \* tokens in a generated line
MaxLines      == 11   \* calls made on one stateful rule instance
MaxPadding    == 2    \* TranslateHeaders(padding=...)
MaxMaxlen     == 9    \* smartpwd's maxlen
MaxPathTokens == 4    \* tokens in a generated pwd
MaxStringLen  == 3    \* length of the string a generic Morpher is called on
MaxDays       == 2    \* days main formats one after another
MaxDayLines   == 3    \* lines in the text of a day

SeqsUpTo(T, n) == UNION {[1..m -> T] : m \in 0..n}
LinesOf(T, n)  == {Concat(ts) : ts \in SeqsUpTo(T, n)}

SlashSlash == <<"/", "/">>
UrlFtp     == <<"f", "t", "p", ":", "/", "/", "a", ".", "b", "c">>
LinkOpen   == <<"[", "x", "]", "(">>
LinkSlashes == <<"[", "x", "]", "(", "/", "/", ")">>

ItalicsTokens == {SlashSlash, <<"a">>, <<" ">>, UrlFtp, <<BACKTICK>>, LinkSlashes}
ItalicsExamples ==
  { <<"a", " ", "/", "/", "b", "/", "/", " ", "c", " ", "/", "/", "d", "/", "/", " ", "e">>,
    <<"[", "x", "]", "(", "h", "t", "t", "p", ":", "/", "/", "a", "/", "/", "b", ")">>,
    \* a URL at the start of the line with Arabic-Indic digits for host and port
    <<"f", "t", "p", ":", "/", "/", Chr(1635), ".", "1", ".", "1", ".", "1", ":",
      Chr(1635), "/", "/", "x", "/", "/">> }
ItalicsLines == LinesOf(ItalicsTokens, MaxTokens) \cup ItalicsExamples

StrikeTokens == {<<"-", "-">>, <<"a">>, <<" ">>, UrlFtp, <<BACKTICK>>, LinkOpen, <<")">>}
StrikeLines  == LinesOf(StrikeTokens, MaxTokens - 1)

HeaderTokens == {<<"=">>, <<"a">>, <<" ">>, <<"=", "=">>}
HeaderExamples ==
  { <<"=", "T", "i", "t", "l", "e", "=">>,
    <<"=", "=", "T", "i", "t", "l", "e", "=", "=">> }
HeaderLines == LinesOf(HeaderTokens, MaxTokens) \cup HeaderExamples

ImageOpen  == <<"[", "\"", "\"">>
FileScheme == <<"f", "i", "l", "e", ":", "/", "/">>
QuoteQuote == <<"\"", "\"">>
DotJpg     == <<".", "j", "p", "g">>
ImageTokens == {ImageOpen, FileScheme, QuoteQuote, DotJpg, <<"]">>, <<"a">>}
ImageExamples ==
  { ImageOpen \o FileScheme \o <<"a">> \o QuoteQuote \o ext \o <<"]">> :
      ext \in {<<".", "t", "i", "f">>, <<".", "p", "n", "g">>, <<".", "g", "i", "f">>,
               <<".", "b", "m", "p">>} }
ImageLines == LinesOf(ImageTokens, MaxTokens + 1) \cup ImageExamples

LinkTokens == {<<"[">>, QuoteQuote, <<"]">>, <<" ">>, <<"a">>, <<"_">>, <<"*">>}
LinkExamples ==
  { <<"[", "M", "y", " ", "S", "i", "t", "e", " ", "\"", "\"", "h", "t", "t", "p", ":",
      "/", "/", "e", "x", ".", "c", "o", "m", "/", "a", "_", "b", "\"", "\"", "]">>,
    <<"[", "a", NBSP, "\"", "\"", "u", "\"", "\"", "]">> }
LinkLines == LinesOf(LinkTokens, MaxTokens) \cup LinkExamples

BacktickTokens == {<<BACKTICK, BACKTICK>>, <<BACKTICK>>, <<"a">>, UrlFtp, LinkOpen, <<")">>}
BacktickLines  == LinesOf(BacktickTokens, MaxTokens - 1)

UnderscoreTokens ==
  {<<"_">>, <<"a">>, <<EACUTE>>, <<" ">>, UrlFtp, <<BACKTICK>>, LinkOpen, <<")">>}
\* letters beyond Latin-1 around an underscore: A with macron, capital omega
UnderscoreExamples == { <<Chr(256), "_", Chr(256)>>, <<Chr(937), "_", "1">> }
UnderscoreLines  == LinesOf(UnderscoreTokens, MaxTokens - 1) \cup UnderscoreExamples

\* list items at two depths, one behind a vertical tab and a no-break space,
\* plain lines, and a marker that no white space follows
ListLines ==
  { <<"+", " ", "a">>, <<"-", " ", "c">>, <<"x">>, <<>>,
    <<" ", " ", "+", " ", "b">>, <<VT, " ", "-", NBSP, "d">>, <<"+">> }

FirstLines == LinesOf({<<"a">>, <<" ">>, <<"#">>}, MaxTokens - 2)

PathTokens == {<<"/">>, <<"a">>, <<"b", "c">>, <<"h">>}
Paths == LinesOf(PathTokens, MaxPathTokens)
Homes == {<<>>, <<"/", "h">>, <<"/", "a", "/", "h">>}

MorpherStrings == UNION {[1..n -> {"a", "b"}] : n \in 0..MaxStringLen}

\* the increasing, pairwise non-overlapping span lists over a string of length n
RECURSIVE SpanLists(_, _)
SpanLists(from, n) ==
  {<<>>} \cup UNION { { <<<<lo, hi>>>> \o rest : rest \in SpanLists(Max(hi, lo + 1), n) } :
                      <<lo, hi>> \in {sp \in (from..n) \X (from..n) : sp[1] <= sp[2]} }

\* the texts of the days of a database: lists, other lines, white space at the
\* end of a line, and a bracketed text on which TranslateLinks raises
DayLineSet ==
  { <<"+", " ", "a">>, <<"x", " ", VT>>, <<>>, <<" ", "+", " ", "b">>,
    <<"[", "a", "\"", "\"", "]">> }
DayTexts == {Join(<<"\n">>, ls) : ls \in SeqsUpTo(DayLineSet, MaxDayLines) \ {<<>>}}
Dates == {[year |-> 2016, month |-> 1, day |-> 5], [year |-> 2017, month |-> 12, day |-> 31]}

StatelessRules == {"TranslateHeaders", "TranslateBackticks", "TranslateImages",
                   "TranslateLinks", "TranslateItalics", "TranslateStrikethroughs",
                   "EscapeInnerUnderscores"}
StatefulRules  == {"TranslateLists", "FirstLineToHeader"}
Rules == StatelessRules \cup StatefulRules

LinesFor(r) ==
  CASE r = "TranslateHeaders"        -> HeaderLines
    [] r = "TranslateBackticks"      -> BacktickLines
    [] r = "TranslateImages"         -> ImageLines
    [] r = "TranslateLinks"          -> LinkLines
    [] r = "TranslateItalics"        -> ItalicsLines
    [] r = "TranslateStrikethroughs" -> StrikeLines
    [] r = "EscapeInnerUnderscores"  -> UnderscoreLines
    [] r = "TranslateLists"          -> ListLines
    [] r = "FirstLineToHeader"       -> FirstLines

----------------------------------------------------------------------------
(* What the claims call a list line, read off the line itself              *)

RECURSIVE LeadingSpaces(_)
LeadingSpaces(l) == IF l # <<>> /\ Head(l) \in Space THEN 1 + LeadingSpaces(Tail(l)) ELSE 0

\* the marker's offset: the first character that is not white space
MarkerOffset(l) == LeadingSpaces(l)

IsListLine(l) ==
  LET k == MarkerOffset(l)
  IN  k + 2 <= Len(l) /\ l[k + 1] \in {"+", "-"} /\ l[k + 2] \in Space

IsPlusLine(l)  == IsListLine(l) /\ l[MarkerOffset(l) + 1] = "+"
IsMinusLine(l) == IsListLine(l) /\ l[MarkerOffset(l) + 1] = "-"

----------------------------------------------------------------------------
(* The state machine: one action per call                                  *)

InitCall(r) ==
  /\ pc = "ready" /\ rule = r
  /\ output = <<>> /\ raised = FALSE
  /\ history = <<>> /\ missed_one = FALSE          \* TranslateLists.__init__
  /\ past_first_line = FALSE                       \* FirstLineToHeader.__init__
  /\ fed = 0 /\ nPlus = 0 /\ indents = {} /\ hadGap = FALSE /\ missRun = 0
  /\ lastDepth = -1 /\ lastCounter = 0 /\ before = <<0, -1, 0>>

\* no day is being formatted
NoDay == [year |-> 0, month |-> 0, day |-> 0]
NoFormatDay ==
  /\ program = "" /\ day = NoDay /\ text = <<>> /\ body = <<>> /\ formatted = <<>>
  /\ nDays = 0 /\ stale = <<<<>>, FALSE>>

\* a rule instance and the first line it is called on
InitRule(r) ==
  /\ InitCall(r) /\ NoFormatDay
  /\ string \in LinesFor(r)
  /\ padding \in (IF r = "TranslateHeaders" THEN 0..MaxPadding ELSE {0})
  /\ ranges = <<>> /\ transform = "default" /\ home = <<>> /\ maxlen = 0

\* the instance under call: its class and its fields
Self == [rule |-> rule, padding |-> padding, history |-> history, transform |-> transform]

\* Morpher.__call__ returns result, or ends in the exception Transform raised
Return(found, raises, result) ==
  /\ ranges' = found
  /\ raised' = raises
  /\ output' = IF raises THEN output ELSE result
  /\ pc' = "done"
  /\ fed' = fed + 1

\* a call of an instance of class r that keeps no state
Call(r, found) ==
  /\ pc = "ready" /\ rule = r
  /\ Return(found, AnyRaises(Self, string, found), MorpherCall(Self, string, found))
  /\ UNCHANGED <<rule, string, instance, args, observed, daily>>

TranslateHeadersCall == Call("TranslateHeaders", TranslateHeaders_FindRanges(string))

TranslateBackticksCall == Call("TranslateBackticks", TranslateBackticks_FindRanges(string))

TranslateImagesCall == Call("TranslateImages", TranslateImages_FindRanges(string))

TranslateLinksCall == Call("TranslateLinks", TranslateLinks_FindRanges(string))

TranslateItalicsCall == Call("TranslateItalics", TranslateItalics_FindRanges(string))

TranslateStrikethroughsCall ==
  Call("TranslateStrikethroughs", TranslateStrikethroughs_FindRanges(string))

EscapeInnerUnderscoresCall ==
  Call("EscapeInnerUnderscores", EscapeInnerUnderscores_FindRanges(string))

\* FindRanges updates the instance, then Transform reads history[-1]
TranslateListsCall ==
  /\ pc = "ready" /\ rule = "TranslateLists"
  /\ LET fr == TranslateLists_FindRanges(history, missed_one, string)
         isList == IsListLine(string)
     IN  /\ history' = fr.history
         /\ missed_one' = fr.missed_one
         /\ Return(fr.ranges,
                   AnyRaises([Self EXCEPT !.history = fr.history], string, fr.ranges),
                   MorpherCall([Self EXCEPT !.history = fr.history], string, fr.ranges))
         /\ nPlus' = IF IsPlusLine(string) THEN nPlus + 1 ELSE nPlus
         /\ indents' = IF isList THEN indents \cup {MarkerOffset(string)} ELSE indents
         /\ hadGap' = (hadGap \/ (~isList /\ missRun >= 1))
         /\ missRun' = IF isList THEN 0 ELSE missRun + 1
         /\ lastDepth' = IF isList THEN MarkerOffset(string) ELSE lastDepth
         /\ lastCounter' = IF isList /\ fr.history # <<>>
                           THEN fr.history[Len(fr.history)] ELSE lastCounter
         /\ before' = <<missRun, lastDepth, lastCounter>>
  /\ UNCHANGED <<rule, string, past_first_line, padding, transform, args, daily>>

\* Transform sets past_first_line when it is called, once per found span
FirstLineToHeaderCall ==
  /\ pc = "ready" /\ rule = "FirstLineToHeader"
  /\ LET found == FirstLineToHeader_FindRanges(past_first_line, string)
     IN  /\ past_first_line' = IF found # <<>> THEN TRUE ELSE past_first_line
         /\ Return(found, AnyRaises(Self, string, found),
                   MorpherCall(Self, string, found))
  /\ UNCHANGED <<rule, string, history, missed_one, padding, transform, args, observed, daily>>

\* the caller hands the next line of the document to a stateful rule
Feed ==
  /\ pc = "done" /\ rule \in StatefulRules
  /\ fed < MaxLines
  /\ string' \in LinesFor(rule)
  /\ pc' = "ready"
  /\ UNCHANGED <<rule, output, raised, ranges, instance, args, fed, observed, daily>>

\* a Morpher subclass whose FindRanges returns ranges and whose Transform is
\* the override named by transform
MorpherCallStep == Call("Morpher", ranges)

smartpwdCall ==
  /\ pc = "ready" /\ rule = "smartpwd"
  /\ Return(<<>>, FALSE, smartpwd(string, home, maxlen))
  /\ UNCHANGED <<rule, string, instance, args, observed, daily>>

\* main calls FormatDay on the next day of the database without the pipeline
\* being constructed anew
FormatDayEnter_Reuse ==
  /\ pc = "ready" /\ rule = "FormatDay"
  /\ nDays < MaxDays
  /\ \E d \in Dates, t \in DayTexts :
       /\ day' = d /\ text' = t
       /\ body' = BodyLines(t)
  /\ UNCHANGED <<history, missed_one>>
  /\ formatted' = <<>>
  /\ string' = <<>> /\ output' = <<>>            \* no line reached, nothing returned
  /\ stale' = <<history, missed_one>>
  /\ nDays' = nDays + 1
  /\ pc' = "mapping"
  /\ UNCHANGED <<rule, raised, ranges, past_first_line, padding, transform, args, fed,
                 observed, program>>
\* main calls FormatDay on the next day of the database: the call constructs
\* the pipeline, TranslateLists() among its rules, and splits the day's text
FormatDayEnter ==
  /\ pc = "ready" /\ rule = "FormatDay"
  /\ nDays < MaxDays
  /\ \E d \in Dates, t \in DayTexts :
       /\ day' = d /\ text' = t
       /\ body' = BodyLines(t)
  /\ history' = <<>> /\ missed_one' = FALSE      \* TranslateLists.__init__
  /\ formatted' = <<>>
  /\ string' = <<>> /\ output' = <<>>            \* no line reached, nothing returned
  /\ stale' = <<history, missed_one>>
  /\ nDays' = nDays + 1
  /\ pc' = "mapping"
  /\ UNCHANGED <<rule, raised, ranges, past_first_line, padding, transform, args, fed,
                 observed, program>>

\* map(rn2md, body) reaches the next line; an exception a rule raises leaves
\* FormatDay and main
FormatDayLine ==
  /\ pc = "mapping" /\ rule = "FormatDay" /\ body # <<>>
  /\ \E y \in {ComposeLeft(PipelineRules(program),
                            [string |-> Head(body), history |-> history,
                             missed_one |-> missed_one, raised |-> FALSE])} :
         /\ string' = Head(body)
         /\ history' = y.history
         /\ missed_one' = y.missed_one
         /\ raised' = y.raised
         /\ formatted' = IF y.raised THEN formatted ELSE Append(formatted, y.string)
         /\ pc' = IF y.raised THEN "done" ELSE "mapping"
  /\ body' = Tail(body)
  /\ UNCHANGED <<rule, output, ranges, past_first_line, padding, transform, args, fed,
                 observed, program, day, text, nDays, stale>>

\* the lines are joined and FormatDay returns
FormatDayReturn ==
  /\ pc = "mapping" /\ rule = "FormatDay" /\ body = <<>>
  /\ output' = FormatDay_Result(program, day, formatted)
  /\ pc' = "ready"
  /\ UNCHANGED <<rule, string, raised, ranges, instance, args, fed, observed, program,
                 day, text, body, formatted, nDays, stale>>

----------------------------------------------------------------------------
(* Specifications                                                          *)

\* every concrete rule, each on its own lines
InitRules == \E r \in Rules : InitRule(r)
NextRules ==
  \/ TranslateHeadersCall
  \/ TranslateBackticksCall
  \/ TranslateImagesCall
  \/ TranslateLinksCall
  \/ TranslateItalicsCall
  \/ TranslateStrikethroughsCall
  \/ EscapeInnerUnderscoresCall
  \/ TranslateListsCall
  \/ FirstLineToHeaderCall
  \/ Feed
SpecRules == InitRules /\ [][NextRules]_vars

\* one TranslateLists instance fed a document line by line
SpecLists == InitRule("TranslateLists") /\ [][TranslateListsCall \/ Feed]_vars

\* one FirstLineToHeader instance fed a document line by line
SpecFirstLine == InitRule("FirstLineToHeader") /\ [][FirstLineToHeaderCall \/ Feed]_vars

SpecItalics == InitRule("TranslateItalics") /\ [][TranslateItalicsCall]_vars
SpecHeaders == InitRule("TranslateHeaders") /\ [][TranslateHeadersCall]_vars
SpecImages  == InitRule("TranslateImages") /\ [][TranslateImagesCall]_vars

\* Morpher.__call__ under any FindRanges result and several Transforms
InitMorpher ==
  /\ InitCall("Morpher") /\ NoFormatDay
  /\ string \in MorpherStrings
  /\ ranges \in SpanLists(0, Len(string))
  /\ transform \in Transforms
  /\ padding = 0 /\ home = <<>> /\ maxlen = 0
SpecMorpher == InitMorpher /\ [][MorpherCallStep]_vars

InitSmartpwd ==
  /\ InitCall("smartpwd") /\ NoFormatDay
  /\ string \in Paths
  /\ home \in Homes
  /\ maxlen \in 0..MaxMaxlen
  /\ ranges = <<>> /\ padding = 0 /\ transform = "default"
SpecSmartpwd == InitSmartpwd /\ [][smartpwdCall]_vars

\* main of rn2md.py or of rn2md_range.py formats the days of a database
InitFormatDay ==
  /\ InitCall("FormatDay")
  /\ program \in Programs
  /\ string = <<>> /\ ranges = <<>> /\ padding = PipelinePadding
  /\ transform = "default" /\ home = <<>> /\ maxlen = 0
  /\ day = NoDay /\ text = <<>> /\ body = <<>> /\ formatted = <<>>
  /\ nDays = 0 /\ stale = <<<<>>, FALSE>>
NextFormatDay == FormatDayEnter \/ FormatDayLine \/ FormatDayReturn
SpecFormatDay == InitFormatDay /\ [][NextFormatDay]_vars

----------------------------------------------------------------------------
(* Claims                                                                  *)

\* a + line whose marker is replaced by the number k and a full stop
Renumbered(l, k) ==
  PySlice(l, 0, MarkerOffset(l)) \o Str(k) \o <<".">> \o PySliceFrom(l, MarkerOffset(l) + 1)

\* C1: when every list line fed so far to one TranslateLists instance has its
\* marker at the same offset and no two consecutive lines were non-list lines,
\* the k-th + line comes out with its marker replaced by "k."; a - line comes
\* out unchanged and leaves the counter where it was, so that the counter
\* always equals the number of + lines fed.
C1_ListRenumbering ==
  (rule = "TranslateLists" /\ pc = "done" /\ Cardinality(indents) <= 1 /\ ~hadGap) =>
    /\ ~raised
    /\ IsPlusLine(string) => output = Renumbered(string, nPlus)
    /\ IsMinusLine(string) =>
         /\ output = string
         /\ before[2] # -1 => lastCounter = before[3]
    /\ history # <<>> => history[Len(history)] = nPlus

\* the tenth + line of a document that also holds other lines comes out as "10. a"
C1_Witness ==
  /\ rule = "TranslateLists" /\ pc = "done"
  /\ Cardinality(indents) <= 1 /\ ~hadGap
  /\ IsPlusLine(string) /\ nPlus = 10 /\ fed > nPlus
  /\ output = <<"1", "0", ".", " ", "a">>

\* C2: a + line that follows an earlier list item after two or more non-list
\* lines in a row is numbered "1."; one that follows a list item of the same
\* depth after exactly one non-list line is numbered with that item's counter
\* plus one.
C2_ResetAfterGap ==
  (rule = "TranslateLists" /\ pc = "done" /\ IsPlusLine(string) /\ before[2] # -1) =>
    /\ before[1] >= 2 => output = Renumbered(string, 1)
    /\ (before[1] = 1 /\ before[2] = MarkerOffset(string)) =>
         output = Renumbered(string, before[3] + 1)

\* a run with a reset behind it in which a + line continues the numbering over
\* one non-list line
C2_Witness ==
  /\ rule = "TranslateLists" /\ pc = "done" /\ IsPlusLine(string)
  /\ hadGap /\ before[1] = 1 /\ before[2] = MarkerOffset(string) /\ before[3] >= 2
  /\ output = Renumbered(string, before[3] + 1)

\* C3: the first line one FirstLineToHeader instance is called on, empty or
\* not, comes out as "# " and the line; every later line comes out unchanged,
\* with no span found: the rule has fired and does not fire again.
C3_FirstLineOneShot ==
  (rule = "FirstLineToHeader" /\ pc = "done") =>
    /\ ~raised
    /\ past_first_line
    /\ fed = 1 => output = <<"#", " ">> \o string
    /\ fed > 1 => output = string /\ ranges = <<>>

\* the third line, a non-empty one, comes out as it went in
C3_Witness ==
  /\ rule = "FirstLineToHeader" /\ pc = "done"
  /\ fed = 3 /\ string # <<>> /\ output = string /\ past_first_line

\* a bracketed text that TranslateLinks.FindRanges accepts although no white
\* space stands before a pair of quotes
NoSpaceBeforeQuotes(l) ==
  \A i \in 1..Len(l) - 2 : ~(l[i] \in Space /\ l[i + 1] = "\"" /\ l[i + 2] = "\"")
MalformedLink(l) ==
  /\ Len(l) >= 5 /\ l[1] = "[" /\ l[2] # "\""
  /\ PySliceFrom(l, Len(l) - 3) = <<"\"", "\"", "]">>
  /\ NoSpaceBeforeQuotes(l)
\* C4: no call of a concrete rule ends in an exception, whatever the line; a
\* bracketed text that ends in two quotes and a bracket and has no white space
\* before any pair of quotes comes out of TranslateLinks untouched.
C4_RulesNeverRaise ==
  (rule \in Rules /\ pc = "done") =>
    /\ ~raised
    /\ (rule = "TranslateLinks" /\ MalformedLink(string)) => output = string

\* the URL literal of URL_PATTERN, wherever it stands in the line
UrlLiteral == Cat(Tail(URL_PATTERN.xs))
UrlLiterals(l) == {MatchAt(UrlLiteral, l, i) : i \in 0..Len(l)} \ {NoMatch}
SpansOf(ms) == {ms[i] : i \in 1..Len(ms)}
\* span d lies inside span g
Inside(d, g) == g[1] <= d[1] /\ d[2] <= g[2]
\* the URL literals, Markdown links and backtick spans of the line
GuardedRegions(l) ==
  UrlLiterals(l) \cup SpansOf(FindIter(LINK_PATTERN, l)) \cup SpansOf(FindIter(BACKTICK_PATTERN, l))
\* the opening and the closing delimiter of each span FindRanges returned
DelimitersUsed(rs) == UNION { {<<rs[i][1], rs[i][1] + 2>>, <<rs[i][2] - 2, rs[i][2]>>} : i \in 1..Len(rs) }

\* C5: TranslateItalics.FindRanges uses no // that lies inside a URL literal
\* (anywhere in the line), inside a Markdown link or inside a backtick span as
\* a delimiter; the line [x](http://a//b) comes out unchanged.
C5_GuardedSlashesUnused ==
  (rule = "TranslateItalics" /\ pc = "done") =>
    /\ \A d \in DelimitersUsed(ranges) : \A g \in GuardedRegions(string) : ~Inside(d, g)
    /\ string = LinkOpen \o <<"h", "t", "t", "p", ":", "/", "/", "a", "/", "/", "b", ")">>
         => output = string

\* gap_0 + Transform(m_1) + gap_1 + ... + Transform(m_k) + gap_k, read off the
\* spans from offset pos on
RECURSIVE Interleaved(_, _, _, _)
Interleaved(l, spans, t, pos) ==
  IF spans = <<>> THEN PySliceFrom(l, pos)
  ELSE PySlice(l, pos, Head(spans)[1])
       \o ApplyTransform(t, PySlice(l, Head(spans)[1], Head(spans)[2]))
       \o Interleaved(l, Tail(spans), t, Head(spans)[2])
RECURSIVE GapsLen(_, _, _)
GapsLen(l, spans, pos) ==
  IF spans = <<>> THEN Len(l) - pos
  ELSE (Head(spans)[1] - pos) + GapsLen(l, Tail(spans), Head(spans)[2])
RECURSIVE TransformsLen(_, _, _)
TransformsLen(l, spans, t) ==
  IF spans = <<>> THEN 0
  ELSE Len(ApplyTransform(t, PySlice(l, Head(spans)[1], Head(spans)[2])))
       + TransformsLen(l, Tail(spans), t)

\* C6: for increasing, non-overlapping spans Morpher.__call__ returns the gaps
\* and the transformed spans interleaved, as long as the gaps and the
\* transformed spans together; without spans it returns the line.
C6_MorpherCoverage ==
  (rule = "Morpher" /\ pc = "done") =>
    /\ output = Interleaved(string, ranges, transform, 0)
    /\ Len(output) = GapsLen(string, ranges, 0) + TransformsLen(string, ranges, transform)
    /\ ranges = <<>> => output = string

\* the line is n = signs, a text that neither starts nor ends with =, n = signs
IsHeader(l, n) ==
  /\ Len(l) > 2 * n
  /\ \A i \in 1..n : l[i] = "=" /\ l[Len(l) + 1 - i] = "="
  /\ l[n + 1] # "=" /\ l[Len(l) - n] # "="
LeadingRun(l) == IF \E i \in 1..Len(l) : l[i] # "="
                 THEN (CHOOSE i \in 1..Len(l) : l[i] # "=" /\ \A j \in 1..i - 1 : l[j] = "=") - 1
                 ELSE Len(l)
TrailingRun(l) == LeadingRun(Reversed(l))

\* C7: TranslateHeaders(padding) rewrites n = signs, a text that starts and
\* ends with another character, and n = signs to padding + n # signs, a space
\* and the text; a line whose leading and trailing runs of = differ in length,
\* or one of which is empty, comes out unchanged.
C7_Headers ==
  (rule = "TranslateHeaders" /\ pc = "done") =>
    /\ ~raised
    /\ \A n \in 1..Len(string) :
         IsHeader(string, n) =>
           output = Repeat("#", padding + n) \o <<" ">> \o SubSeq(string, n + 1, Len(string) - n)
    /\ (LeadingRun(string) # TrailingRun(string) \/ LeadingRun(string) = 0
        \/ TrailingRun(string) = 0) => output = string

\* ==Title== under padding 1 came out as ### Title
C7_Witness ==
  /\ rule = "TranslateHeaders" /\ pc = "done" /\ padding = 1
  /\ string = <<"=", "=", "T", "i", "t", "l", "e", "=", "=">>
  /\ output = <<"#", "#", "#", " ", "T", "i", "t", "l", "e">>

ImageExts == {<<".", "j", "p", "g">>, <<".", "t", "i", "f">>, <<".", "p", "n", "g">>,
              <<".", "g", "i", "f">>}
\* t is [""U"".ext] for a U that begins with file://
IsImageForm(t) ==
  /\ Len(t) >= 17
  /\ SubSeq(t, 1, 10) = ImageOpen \o FileScheme
  /\ SubSeq(t, Len(t) - 6, Len(t) - 5) = QuoteQuote
  /\ SubSeq(t, Len(t) - 4, Len(t) - 1) \in ImageExts
  /\ t[Len(t)] = "]"
ImageForms(l) ==
  {sp \in (0..Len(l)) \X (0..Len(l)) : sp[1] < sp[2] /\ IsImageForm(PySlice(l, sp[1], sp[2]))}

\* C8: in a line that holds one substring [""U"".ext], U a URL that begins
\* with file:// and ext one of jpg, tif, png, gif, TranslateImages puts
\* ![](U.ext) in its place: U whole, the extension, and no alt text.
C8_ImageKeepsUrl ==
  (rule = "TranslateImages" /\ pc = "done") =>
    \A sp \in ImageForms(string) :
      ImageForms(string) = {sp} =>
        LET t == PySlice(string, sp[1], sp[2])
            U == SubSeq(t, 4, Len(t) - 7)
            ext == SubSeq(t, Len(t) - 4, Len(t) - 1)
        IN  output = PySlice(string, 0, sp[1]) \o <<"!", "[", "]", "(">> \o U \o ext \o <<")">>
                     \o PySliceFrom(string, sp[2])

\* pwd is the home directory or lies below it
UnderHome(pwd, hm) ==
  /\ hm # <<>>
  /\ StartsWith(pwd, hm)
  /\ (Len(pwd) = Len(hm) \/ hm[Len(hm)] = "/" \/ pwd[Len(hm) + 1] = "/")

\* C9: a pwd that does not lie under home (an empty home is none) gets no ~:
\* when it fits into maxlen it is returned as it is, otherwise as a prefix of
\* its head, the separator .../ and its last component.
C9_NoHomeNoTilde ==
  (rule = "smartpwd" /\ pc = "done" /\ ~UnderHome(string, home)) =>
    /\ Len(string) <= maxlen => output = string
    /\ Len(string) > maxlen =>
         \E k \in 0..Len(PathSplit(string)[1]) :
           output = PySlice(PathSplit(string)[1], 0, k) \o SEPERATOR \o PathSplit(string)[2]

\* the offsets of the // found scanning s from offset pos, left to right,
\* each scan going on behind the last one found
RECURSIVE SlashPairsFrom(_, _)
SlashPairsFrom(l, pos) ==
  IF pos + 2 > Len(l) THEN <<>>
  ELSE IF l[pos + 1] = "/" /\ l[pos + 2] = "/"
       THEN <<pos>> \o SlashPairsFrom(l, pos + 2)
       ELSE SlashPairsFrom(l, pos + 1)
UnguardedSlashes(l) ==
  SelectSeq(SlashPairsFrom(l, 0),
            LAMBDA i : ~OccursInUrl(<<i, i + 2>>, l) /\ ~OccursInBacktick(<<i, i + 2>>, l))
\* the line from offset pos on, the 1st and 2nd, 3rd and 4th, ... of the
\* delimiters at the offsets ds and the text between them written as _text_
RECURSIVE Italicised(_, _, _)
Italicised(l, ds, pos) ==
  IF Len(ds) < 2 THEN PySliceFrom(l, pos)
  ELSE PySlice(l, pos, ds[1]) \o <<"_">> \o PySlice(l, ds[1] + 2, ds[2]) \o <<"_">>
       \o Italicised(l, SubSeq(ds, 3, Len(ds)), ds[2] + 2)

\* C10: TranslateItalics pairs the unguarded // of a line from the left, 1st
\* with 2nd, 3rd with 4th, and writes each pair and the text between as
\* _text_; the text outside the pairs, and the last // of an odd number, stay
\* as they are.
C10_ItalicsPairing ==
  (rule = "TranslateItalics" /\ pc = "done") =>
    /\ ~raised
    /\ output = Italicised(string, UnguardedSlashes(string), 0)
    /\ string = <<"a", " ", "/", "/", "b", "/", "/", " ", "c", " ", "/", "/", "d", "/", "/", " ", "e">>
         => output = <<"a", " ", "_", "b", "_", " ", "c", " ", "_", "d", "_", " ", "e">>

\* a line with three unguarded //: one pair rewritten, the third left in place
C10_Witness ==
  /\ rule = "TranslateItalics" /\ pc = "done"
  /\ Len(UnguardedSlashes(string)) = 3
  /\ Len(ranges) = 1
  /\ PySliceFrom(output, Len(output) - 3) = <<"/", "/", "a">>


\* C11: every FormatDay call starts its lines on a pipeline whose TranslateLists
\* instance has an empty history and a clear missed_one, whatever the days
\* formatted before left behind; so a day formatted after other days comes out
\* as it does when it is formatted alone, and a day on which a rule raises
\* formatted alone raises here too.
C11_FreshPipelinePerDay ==
  rule = "FormatDay" =>
    /\ (pc = "mapping" /\ Len(body) = Len(BodyLines(text))) =>
         history = <<>> /\ ~missed_one /\ formatted = <<>>
    /\ (pc = "ready" /\ nDays >= 1) =>
         /\ ~FormatDay(program, day, text).raised
         /\ output = FormatDay(program, day, text).output
    /\ pc = "done" => raised /\ FormatDay(program, day, text).raised

\* the second day begins with a + line and is numbered from 1, although the
\* pipeline of the day before ended with a list counter
C11_Witness ==
  /\ rule = "FormatDay" /\ pc = "ready" /\ nDays = 2
  /\ stale[1] # <<>> /\ stale[1][Len(stale[1])] >= 1
  /\ text = <<"+", " ", "a", "\n", "+", " ", "a">>
  /\ output = <<"#", " ">> \o Strftime(day)
                \o <<"\n", "1", ".", " ", "a", "\n", "2", ".", " ", "a">>

====
